---- MODULE Spec2Model ----
(***************************************************************************)
(* Model of weather_bot.py: a Telegram bot that answers city names with    *)
(* the current weather, backed by the module-level expiring cache          *)
(* WEATHER_CACHE.  Handlers run on the worker threads of the bot; a thread *)
(* takes one step for each access to the cache, the clock or the provider, *)
(* and the clock (time.time()) advances between steps.                      *)
(***************************************************************************)
EXTENDS Integers, Sequences, FiniteSets, TLC

\* ------------------------------------------------------------------ bounds
MaxTime == 601        \* last clock reading of a run

\* --------------------------------------------------------- program constants
NumThreads == 2       \* telebot.TeleBot(...) default worker pool
Threads == 1..NumThreads

Kyiv == <<"K", "y", "i", "v">>
Dnipro == <<"D", "n", "i", "p", "r", "o">>
Lviv == <<"L", "v", "i", "v">>
Uzhhorod == <<"U", "z", "h", "h", "o", "r", "o", "d">>
Berlin == <<"B", "e", "r", "l", "i", "n">>

AVAILABLE_CITIES == <<Kyiv, Dnipro, Lviv, Uzhhorod, Berlin>>

CACHE_DURATION == 10 * 60

\* ------------------------------------------------------------------ inputs
\* Clock readings: the start, and the readings around the expiry of an entry
\* written at the start (the last second of its lifetime and the first ones
\* after it).
Times == {t \in 0..MaxTime : t \in {0, 599, 600, 601} \/ t > 601}

Whitespace == {" ", "\n", "\t"}

StartCommand == <<"/", "s", "t", "a", "r", "t">>
HelpCommand == <<"/", "h", "e", "l", "p">>
kyiv == <<"k", "y", "i", "v">>

\* Inbound messages, as text and chat: the two commands, a listed city, a
\* second listed city typed with whitespace around it, a lower-case spelling,
\* alone and after a tab, a word with inner whitespace, an unlisted city and
\* the empty text.
Inbox == {<<StartCommand, 7>>, <<HelpCommand, 8>>,
          <<Kyiv, 7>>, <<(<<" ">> \o Lviv \o <<"\n">>), 8>>,
          <<kyiv, 7>>, <<(<<"\t">> \o kyiv), 8>>,
          <<(<<"K", "y", " ", "i", "v">>), 7>>,
          <<(<<"O", "s", "l", "o">>), 8>>, <<(<<>>), 7>>}

\* JSON bodies of a 200 answer: the fields they carry and the instant the
\* provider observed the weather at, which is the instant of the answer.
Fields == {"name", "temp", "humidity", "description"}
Required == {"temp", "humidity", "description"}
Shapes == {Fields, {"name"}, {}}

PyNone == [tag |-> "None", observed |-> 0, keys |-> {}]
Dict(t, ks) == [tag |-> "dict", observed |-> t, keys |-> ks]

FailStatuses == {404, 500}
NoResponse == [kind |-> "none", status_code |-> 0, body |-> PyNone]
Ok(t, ks) == [kind |-> "response", status_code |-> 200, body |-> Dict(t, ks)]
Fail(s) == [kind |-> "response", status_code |-> s, body |-> PyNone]
RequestException == [kind |-> "exception", status_code |-> 0, body |-> PyNone]

NoEntry == [present |-> FALSE, timestamp |-> 0, data |-> PyNone]
NoMessage == [kind |-> "none", text |-> <<>>, chat_id |-> 0]

\* ------------------------------------------------------------------- state
VARIABLES
    clock,          \* time.time()
    WEATHER_CACHE,  \* city -> [timestamp, data]
    pc,             \* where each thread is in get_weather_data
    message,        \* handle_city_request: the message a thread handles
    cache_entry,    \* get_weather_data: local cache_entry
    now,            \* get_weather_data: time.time() read at the staleness check
    last_run        \* the handler run that ended in the last step, if any

vars == <<clock, WEATHER_CACHE, pc, message, cache_entry, now, last_run>>

\* ------------------------------------------------------------ pure functions
InList(x, s) == \E i \in 1..Len(s) : s[i] = x

RECURSIVE lstrip(_)
lstrip(s) == IF s # <<>> /\ Head(s) \in Whitespace THEN lstrip(Tail(s)) ELSE s

RECURSIVE rstrip(_)
rstrip(s) == IF s # <<>> /\ s[Len(s)] \in Whitespace
             THEN rstrip(SubSeq(s, 1, Len(s) - 1)) ELSE s

strip(s) == rstrip(lstrip(s))

\* Variant: the text is used as typed, with the whitespace around it.
city_name_raw(p) == message[p].text

\* handle_city_request: city_name = message.text.strip()
city_name(p) == strip(message[p].text)

\* Variant: the membership test ignores the case of the first letter.
Upper(ch) == IF ch = "k" THEN "K" ELSE IF ch = "l" THEN "L" ELSE ch

IsAvailable_nocase(c) ==
    \E i \in 1..Len(AVAILABLE_CITIES) :
       /\ c # <<>>
       /\ Upper(Head(c)) = Head(AVAILABLE_CITIES[i])
       /\ Tail(c) = Tail(AVAILABLE_CITIES[i])

\* handle_city_request: city_name in AVAILABLE_CITIES
IsAvailable(c) == InList(c, AVAILABLE_CITIES)

\* Variant: the duration is taken in minutes.
IsFresh_minutes(t, entry) == (t - entry.timestamp) < 10

\* Variant: an entry aged exactly CACHE_DURATION still counts as fresh.
IsFresh_le(t, entry) == (t - entry.timestamp) <= CACHE_DURATION

\* get_weather_data: (time.time() - cache_entry['timestamp']) < CACHE_DURATION
IsFresh(t, entry) == (t - entry.timestamp) < CACHE_DURATION

\* Python truth value of the argument of format_weather_message
Truthy(data) == data.tag = "dict" /\ data.keys # {}

WelcomeText == [kind |-> "welcome", has_name |-> FALSE]
HelpText == [kind |-> "help", has_name |-> FALSE]
RejectText == [kind |-> "reject", has_name |-> FALSE]
FailureText == [kind |-> "failure", has_name |-> FALSE]
KeyError == [kind |-> "KeyError", has_name |-> FALSE]

\* format_weather_message: the text it returns, or KeyError when it raises
format_weather_message(data) ==
    IF ~Truthy(data) THEN FailureText
    ELSE IF {"temp", "humidity", "description"} \subseteq data.keys
         THEN [kind |-> "report", has_name |-> "name" \in data.keys]
         ELSE KeyError

Is200(r) == r.kind = "response" /\ r.status_code = 200

\* What a call of get_weather_data did: the entry it found, the clock it
\* judged it against, the requests.get calls it made, the answer it got and
\* the value it returned.
NoCall == [called |-> FALSE, cache_entry |-> NoEntry, now |-> -1,
           fetcher_calls |-> 0, response |-> NoResponse, weather_data |-> PyNone]
Call(entry, t, n, r, data) ==
    [called |-> TRUE, cache_entry |-> entry, now |-> t,
     fetcher_calls |-> n, response |-> r, weather_data |-> data]

\* A handler run that ended: the inbound message, the call of
\* get_weather_data it made, the bot.send_message calls it made, and whether
\* it raised.
NoRun == [ended |-> FALSE, message |-> NoMessage, call |-> NoCall,
          sent |-> <<>>, raised |-> FALSE]
Run(m, call, out, raised) ==
    [ended |-> TRUE, message |-> m, call |-> call, sent |-> out, raised |-> raised]

\* ------------------------------------------------------------------- Init
Init ==
    /\ clock = 0
    /\ WEATHER_CACHE = [c \in {} |-> NoEntry]
    /\ pc = [p \in Threads |-> "idle"]
    /\ message = [p \in Threads |-> NoMessage]
    /\ cache_entry = [p \in Threads |-> NoEntry]
    /\ now = [p \in Threads |-> -1]
    /\ last_run = NoRun

\* The clock moves forward between any two steps.
Tick ==
    /\ \E t \in Times : t > clock /\ clock' = t
    /\ last_run' = NoRun
    /\ UNCHANGED <<WEATHER_CACHE, pc, message, cache_entry, now>>

\* The handler the decorators of the module select for a text
KindOf(t) == IF t = StartCommand THEN "start"
             ELSE IF t = HelpCommand THEN "help" ELSE "text"

\* Inbound messages, and those the decorators route to the handler of a kind
Messages == {[kind |-> KindOf(i[1]), text |-> i[1], chat_id |-> i[2]] :
                i \in Inbox}
Inbound(kind) == {m \in Messages : m.kind = kind}

\* Variant: the assignment replaces the whole cache by the one entry.
Put_alone(cache, city, entry) == [c \in {city} |-> entry]

\* WEATHER_CACHE[city] = {'timestamp': ..., 'data': ...}
Put(cache, city, entry) ==
    [c \in DOMAIN cache \cup {city} |-> IF c = city THEN entry ELSE cache[c]]

\* bot.send_message(message.chat.id, text)
Send(m, text) == <<[chat_id |-> m.chat_id, text |-> text]>>

\* handle_city_request after get_weather_data returned: the report is
\* formatted and sent, or the KeyError of the formatter ends the handler
Reply(m, call) ==
    LET weather_report == format_weather_message(call.weather_data)
    IN IF weather_report = KeyError
       THEN Run(m, call, <<>>, TRUE)
       ELSE Run(m, call, Send(m, weather_report), FALSE)

\* ----------------------------------------------------------------- actions
send_welcome(p) ==
    /\ pc[p] = "idle"
    /\ \E m \in Inbound("start") :
          last_run' = Run(m, NoCall, Send(m, WelcomeText), FALSE)
    /\ UNCHANGED <<clock, WEATHER_CACHE, pc, message, cache_entry, now>>

send_help(p) ==
    /\ pc[p] = "idle"
    /\ \E m \in Inbound("help") :
          last_run' = Run(m, NoCall, Send(m, HelpText), FALSE)
    /\ UNCHANGED <<clock, WEATHER_CACHE, pc, message, cache_entry, now>>

\* handle_city_request: the else branch, or the call of get_weather_data up
\* to the lookup of the city in WEATHER_CACHE
handle_city_request(p) ==
    /\ pc[p] = "idle"
    /\ \E m \in Inbound("text") :
          IF ~IsAvailable(strip(m.text))
          THEN /\ last_run' = Run(m, NoCall, Send(m, RejectText), FALSE)
               /\ UNCHANGED <<pc, message, cache_entry>>
          ELSE /\ last_run' = NoRun
               /\ message' = [message EXCEPT ![p] = m]
               /\ IF strip(m.text) \in DOMAIN WEATHER_CACHE
                  THEN /\ cache_entry' = [cache_entry EXCEPT ![p] =
                              [present |-> TRUE,
                               timestamp |-> WEATHER_CACHE[strip(m.text)].timestamp,
                               data |-> WEATHER_CACHE[strip(m.text)].data]]
                       /\ pc' = [pc EXCEPT ![p] = "gwd_check"]
                  ELSE /\ pc' = [pc EXCEPT ![p] = "gwd_get"]
                       /\ UNCHANGED cache_entry
    /\ UNCHANGED <<clock, WEATHER_CACHE, now>>

\* The handler of thread p ends with the call of get_weather_data it made.
Finish(p, call) ==
    /\ last_run' = Reply(message[p], call)
    /\ pc' = [pc EXCEPT ![p] = "idle"]
    /\ message' = [message EXCEPT ![p] = NoMessage]
    /\ cache_entry' = [cache_entry EXCEPT ![p] = NoEntry]
    /\ now' = [now EXCEPT ![p] = -1]

\* get_weather_data: the staleness check; a fresh entry is returned and the
\* handler replies with it
gwd_check(p) ==
    /\ pc[p] = "gwd_check"
    /\ IF IsFresh(clock, cache_entry[p])
       THEN Finish(p, Call(cache_entry[p], clock, 0, NoResponse, cache_entry[p].data))
       ELSE /\ now' = [now EXCEPT ![p] = clock]
            /\ pc' = [pc EXCEPT ![p] = "gwd_get"]
            /\ last_run' = NoRun
            /\ UNCHANGED <<message, cache_entry>>
    /\ UNCHANGED <<clock, WEATHER_CACHE>>

\* Answers of requests.get at instant t: 200 with a body, another status, or
\* the transport raises
Responses(t) ==
    {Ok(t, ks) : ks \in Shapes} \cup {Fail(s) : s \in FailStatuses}
    \cup {RequestException}

\* Variant: the entry is stamped with the reading of the staleness check.
StoreTimestamp_check(p) == IF now[p] >= 0 THEN now[p] ELSE clock

\* get_weather_data: timestamp written with a 200 answer
StoreTimestamp(p) == clock

\* Variant: a 200 answer fills an empty slot only and never replaces an entry.
CacheAfter_keep(p, r) ==
    IF Is200(r) /\ city_name(p) \notin DOMAIN WEATHER_CACHE
    THEN Put(WEATHER_CACHE, city_name(p),
             [timestamp |-> StoreTimestamp(p), data |-> r.body])
    ELSE WEATHER_CACHE

\* Variant: the entry is written whatever the answer.
CacheAfter_poison(p, r) ==
    Put(WEATHER_CACHE, city_name(p),
        [timestamp |-> StoreTimestamp(p), data |-> r.body])

\* Variant: a 200 answer is written only when the cache still holds what the
\* call found at its lookup, so that of two overlapping calls the first wins.
CacheAfter_once(p, r) ==
    IF /\ Is200(r)
       /\ IF cache_entry[p].present
          THEN /\ city_name(p) \in DOMAIN WEATHER_CACHE
               /\ WEATHER_CACHE[city_name(p)].timestamp = cache_entry[p].timestamp
               /\ WEATHER_CACHE[city_name(p)].data = cache_entry[p].data
          ELSE city_name(p) \notin DOMAIN WEATHER_CACHE
    THEN Put(WEATHER_CACHE, city_name(p),
             [timestamp |-> StoreTimestamp(p), data |-> r.body])
    ELSE WEATHER_CACHE

\* Variant: a failed answer evicts the entry of the city.
CacheAfter_evict(p, r) ==
    IF Is200(r)
    THEN Put(WEATHER_CACHE, city_name(p),
             [timestamp |-> StoreTimestamp(p), data |-> r.body])
    ELSE [c \in DOMAIN WEATHER_CACHE \ {city_name(p)} |-> WEATHER_CACHE[c]]

\* get_weather_data: the cache after the answer r has been handled
CacheAfter(p, r) ==
    IF Is200(r)
    THEN Put(WEATHER_CACHE, city_name(p),
             [timestamp |-> StoreTimestamp(p), data |-> r.body])
    ELSE WEATHER_CACHE

\* Variant: a failed refresh falls back to the record of the stale entry.
Returned_stale(p, r) ==
    IF Is200(r) THEN r.body
    ELSE IF cache_entry[p].present THEN cache_entry[p].data ELSE PyNone

\* Variant: the body of an error answer is returned to the caller.
Returned_errbody(p, r) ==
    IF Is200(r) THEN r.body
    ELSE IF r.kind = "response" THEN Dict(0, {"cod", "message"}) ELSE PyNone

\* get_weather_data: the value returned after the answer r has been handled
Returned(p, r) == IF Is200(r) THEN r.body ELSE PyNone

\* Variant: a failed request is repeated once before the call gives up.
Attempts_retry(r) == IF Is200(r) THEN 1 ELSE 2

\* get_weather_data: the calls of requests.get the try block makes for the
\* answer r; the call is outside any loop and neither branch repeats it
Attempts(r) == 1

\* get_weather_data: the try block.  The thread waits in requests.get while
\* it is at gwd_get; the step is the arrival of the answer, its handling, and
\* the reply of the handler.
gwd_get(p) ==
    /\ pc[p] = "gwd_get"
    /\ \E r \in Responses(clock) :
          /\ WEATHER_CACHE' = CacheAfter(p, r)
          /\ Finish(p, Call(cache_entry[p], now[p], Attempts(r), r,
                          Returned(p, r)))
    /\ UNCHANGED clock

Step(p) ==
    \/ send_welcome(p)
    \/ send_help(p)
    \/ handle_city_request(p)
    \/ gwd_check(p)
    \/ gwd_get(p)

Next == Tick \/ \E p \in Threads : Step(p)

Spec == Init /\ [][Next]_vars

\* Sequential dispatch: a handler runs to completion before the next starts.
Alone(p) == \A q \in Threads \ {p} : pc[q] = "idle"

SeqNext == Tick \/ \E p \in Threads : Alone(p) /\ Step(p)

SeqSpec == Init /\ [][SeqNext]_vars

\* ------------------------------------------------------------------ claims
\* The run that just ended made a call of get_weather_data.
Called == last_run.ended /\ last_run.call.called

\* That call found an entry and judged it against the clock.
Checked == Called /\ last_run.call.cache_entry.present

\* The age of the entry at the staleness check of that call
Age == last_run.call.now - last_run.call.cache_entry.timestamp

\* That call got an answer that is not a 200.
FetchFailed == Called /\ last_run.call.response # NoResponse
                      /\ ~Is200(last_run.call.response)

\* The city of the run that just ended
City == strip(last_run.message.text)

\* C1: a call returns the cached record without invoking the Fetcher if and
\* only if an entry existed for the city and now - entry.timestamp < 600; in
\* every other case (no entry, or an age of 600 or more) it invokes the
\* Fetcher.
C1_HitIffFresh ==
    Called =>
        LET fresh == Checked /\ Age < 600
        IN /\ fresh => /\ last_run.call.fetcher_calls = 0
                       /\ last_run.call.response = NoResponse
                       /\ last_run.call.weather_data = last_run.call.cache_entry.data
           /\ ~fresh => /\ last_run.call.fetcher_calls = 1
                        /\ last_run.call.response # NoResponse

\* An entry aged exactly 600 was judged stale and the Fetcher was invoked.
C1_Witness == Checked /\ Age = 600 /\ last_run.call.fetcher_calls = 1

\* C2: when the Fetcher answers 200 for a city, the cache entry of that city
\* holds exactly the fetched record once the answer is handled, whatever
\* entry was there before, and the call returns that record.
C2_SuccessOverwrites ==
    (Called /\ Is200(last_run.call.response)) =>
        /\ City \in DOMAIN WEATHER_CACHE
        /\ WEATHER_CACHE[City].data = last_run.call.response.body
        /\ last_run.call.weather_data = last_run.call.response.body

\* A 200 answer replaced an earlier entry of the city by a different record.
C2_Witness ==
    /\ Checked
    /\ Is200(last_run.call.response)
    /\ WEATHER_CACHE[City].data = last_run.call.response.body
    /\ WEATHER_CACHE[City].data # last_run.call.cache_entry.data

\* C3 as stated: the timestamp stored with a 200 answer is the `now` the call
\* judged staleness against.
C3_StoredAtCheck ==
    (Checked /\ Is200(last_run.call.response)) =>
        WEATHER_CACHE[City].timestamp = last_run.call.now

\* C3 amended: the timestamp stored with a 200 answer is the clock reading
\* taken when the entry is written, after the answer arrived; it is never
\* earlier than the reading of the staleness check.
C3_StoredAtWrite ==
    (Called /\ Is200(last_run.call.response)) =>
        /\ WEATHER_CACHE[City].timestamp = clock
        /\ Checked => WEATHER_CACHE[City].timestamp >= last_run.call.now

\* The clock advanced while the request was in flight and the entry carries
\* the later reading.
C3_Witness ==
    /\ Checked
    /\ Is200(last_run.call.response)
    /\ WEATHER_CACHE[City].timestamp > last_run.call.now

\* C4: a step in which a call ends with a failed answer (another status, or a
\* transport exception) leaves the whole cache as it was, and no step ever
\* stores a value that is not the body of a 200 answer.
C4_FailureKeepsCache ==
    [][/\ (last_run'.ended /\ last_run'.call.called
             /\ last_run'.call.response # NoResponse
             /\ ~Is200(last_run'.call.response)) =>
          WEATHER_CACHE' = WEATHER_CACHE
       /\ \A c \in DOMAIN WEATHER_CACHE' : WEATHER_CACHE'[c].data.tag = "dict"]_vars

\* A refresh of a stale entry failed and the entry kept its record and
\* timestamp.
C4_Witness ==
    /\ Checked
    /\ FetchFailed
    /\ WEATHER_CACHE[City].data = last_run.call.cache_entry.data
    /\ WEATHER_CACHE[City].timestamp = last_run.call.cache_entry.timestamp

\* C5: a call that judged the entry stale never returns the record of that
\* entry; when its refresh fails it returns the failure (None).
C5_NoStaleFallback ==
    (Checked /\ Age >= 600) =>
        /\ last_run.call.weather_data # last_run.call.cache_entry.data
        /\ FetchFailed => last_run.call.weather_data = PyNone

\* A refresh of a stale entry failed and the call returned None.
C5_Witness ==
    /\ Checked
    /\ Age >= 600
    /\ FetchFailed
    /\ last_run.call.weather_data = PyNone

\* C6 as stated: a free text that is not character for character an entry of
\* the allow-list never reaches the Fetcher and is answered with the
\* rejection prompt.
C6_ExactMatchOnly ==
    /\ \A p \in Threads :
          pc[p] # "idle" => InList(message[p].text, AVAILABLE_CITIES)
    /\ (last_run.ended /\ last_run.message.kind = "text"
           /\ ~InList(last_run.message.text, AVAILABLE_CITIES)) =>
          /\ ~last_run.call.called
          /\ last_run.sent = Send(last_run.message, RejectText)

\* C6 amended: a free text that, with the whitespace around it removed, is not
\* exactly (case-sensitively) an entry of the allow-list never reaches the
\* Fetcher and is answered with the rejection prompt; only a text that equals
\* an entry once stripped is treated as a city selection.
C6_StrippedMatchOnly ==
    /\ \A p \in Threads :
          pc[p] # "idle" => InList(strip(message[p].text), AVAILABLE_CITIES)
    /\ (last_run.ended /\ last_run.message.kind = "text"
           /\ ~InList(City, AVAILABLE_CITIES)) =>
          /\ ~last_run.call.called
          /\ last_run.sent = Send(last_run.message, RejectText)
    /\ Called => InList(City, AVAILABLE_CITIES)

\* A lower-case spelling typed after a tab was rejected.
C6_Witness ==
    /\ last_run.ended
    /\ last_run.message.text = <<"\t">> \o kyiv
    /\ last_run.sent = Send(last_run.message, RejectText)

\* C7: every handler run ends having sent exactly one message, to the chat of
\* the inbound message, and without raising.
C7_OneReplyPerMessage ==
    last_run.ended => /\ Len(last_run.sent) = 1
                      /\ last_run.sent[1].chat_id = last_run.message.chat_id
                      /\ ~last_run.raised

\* C8: a run for a listed city whose fetch failed, whatever the status or the
\* exception, ends with the one static failure message and does not raise.
C8_FailureMessage ==
    FetchFailed => /\ last_run.sent = Send(last_run.message, FailureText)
                   /\ ~last_run.raised

\* A run whose request raised in the transport ended with the failure message.
C8_Witness ==
    /\ Called
    /\ last_run.call.response = RequestException
    /\ last_run.sent = Send(last_run.message, FailureText)

\* C9: a run whose 200 answer lacks a field of the weather record, or is
\* empty, ends with the static failure message instead of raising.
C9_MalformedBodyIsFailure ==
    (Called /\ Is200(last_run.call.response)
         /\ ~(Required \subseteq last_run.call.response.body.keys)) =>
        /\ last_run.sent = Send(last_run.message, FailureText)
        /\ ~last_run.raised

\* C10: with handlers run one at a time, a request for a city without an
\* entry invokes the Fetcher once and a 200 answer is cached; a request made
\* less than 600 after the entry was stored invokes no Fetcher and returns the
\* record that is cached; a request made 600 or more after it invokes the
\* Fetcher again.
C10_SequentialScenario ==
    Called =>
        /\ ~Checked =>
              /\ last_run.call.fetcher_calls = 1
              /\ Is200(last_run.call.response) =>
                    /\ City \in DOMAIN WEATHER_CACHE
                    /\ WEATHER_CACHE[City].data = last_run.call.response.body
        /\ (Checked /\ Age < 600) =>
              /\ last_run.call.fetcher_calls = 0
              /\ last_run.call.weather_data = WEATHER_CACHE[City].data
              /\ WEATHER_CACHE[City].timestamp = last_run.call.cache_entry.timestamp
        /\ (Checked /\ Age >= 600) =>
              /\ last_run.call.fetcher_calls = 1
              /\ Is200(last_run.call.response) =>
                    WEATHER_CACHE[City].data = last_run.call.response.body

\* The entry was stored 599 before the request and the request was a hit
\* that returned the cached record.
C10_Witness ==
    /\ Checked
    /\ Age = 599
    /\ clock - WEATHER_CACHE[City].timestamp = 599
    /\ last_run.call.fetcher_calls = 0
    /\ last_run.call.weather_data = WEATHER_CACHE[City].data

\* C11: with handlers running concurrently, a call waiting for the Fetcher is
\* never cancelled by what another call does: it leaves requests.get only with
\* its own answer, having invoked the Fetcher once.  Every 200 answer is
\* written, also over an entry another call wrote after this call's lookup, so
\* the entry of the city is the one of the call that completed last, whatever
\* the order in which the calls began.
C11_LastCompletionWins ==
    [][/\ \A q \in Threads :
             (pc[q] = "gwd_get" /\ pc'[q] # "gwd_get") =>
                 /\ last_run'.ended
                 /\ last_run'.message = message[q]
                 /\ last_run'.call.fetcher_calls = 1
       /\ (last_run'.ended /\ last_run'.call.fetcher_calls = 1
              /\ Is200(last_run'.call.response)) =>
             WEATHER_CACHE'[strip(last_run'.message.text)] =
                 [timestamp |-> clock',
                  data |-> last_run'.call.response.body]]_vars

\* Two calls for one city both judged its entry stale; the one that judged it
\* later has written its 200 answer while the earlier one still waits for the
\* Fetcher.
C11_Witness ==
    /\ Checked
    /\ last_run.call.fetcher_calls = 1
    /\ Is200(last_run.call.response)
    /\ WEATHER_CACHE[City].data = last_run.call.response.body
    /\ \E q \in Threads :
          /\ pc[q] = "gwd_get"
          /\ city_name(q) = City
          /\ cache_entry[q].present
          /\ now[q] < last_run.call.now

\* C12: the cache maps each city key to one entry (a timestamp and a record);
\* no step removes a key, and the entry of a key changes only in the step in
\* which a call for that city handles a 200 answer, so a stale entry stays as
\* it is until a successful fetch overwrites it.
C12_EntriesPersist ==
    [][\A c \in DOMAIN WEATHER_CACHE :
          /\ c \in DOMAIN WEATHER_CACHE'
          /\ DOMAIN WEATHER_CACHE'[c] = {"timestamp", "data"}
          /\ WEATHER_CACHE'[c] # WEATHER_CACHE[c] =>
                /\ last_run'.ended
                /\ strip(last_run'.message.text) = c
                /\ Is200(last_run'.call.response)]_vars

\* An entry older than the cache duration is still in the cache, as it was
\* found, after the request that should have refreshed it raised.
C12_Witness ==
    /\ Checked
    /\ last_run.call.response = RequestException
    /\ City \in DOMAIN WEATHER_CACHE
    /\ clock - WEATHER_CACHE[City].timestamp >= CACHE_DURATION
    /\ WEATHER_CACHE[City].timestamp = last_run.call.cache_entry.timestamp
    /\ WEATHER_CACHE[City].data = last_run.call.cache_entry.data

\* C13: a call of get_weather_data invokes the Fetcher at most once.  A call
\* that returns a fresh entry invokes it zero times; a call whose request
\* failed (another status, or a transport exception) invoked it exactly once
\* and returns the failure in the step in which the answer arrives.
C13_AtMostOneFetch ==
    [][(last_run'.ended /\ last_run'.call.called) =>
          /\ last_run'.call.fetcher_calls \in {0, 1}
          /\ last_run'.call.response = NoResponse =>
                last_run'.call.fetcher_calls = 0
          /\ (last_run'.call.response # NoResponse
                 /\ ~Is200(last_run'.call.response)) =>
                /\ last_run'.call.fetcher_calls = 1
                /\ last_run'.call.weather_data = PyNone
                /\ \A q \in Threads :
                      (pc[q] = "gwd_get" /\ pc'[q] # pc[q]) => pc'[q] = "idle"]_vars

\* The one request of a call came back with a status other than 200 and the
\* call returned None.
C13_Witness ==
    /\ FetchFailed
    /\ last_run.call.response.kind = "response"
    /\ last_run.call.fetcher_calls = 1
    /\ last_run.call.weather_data = PyNone

\* C14: the record of every cache entry is complete: formatting it yields a
\* weather report, it neither raises nor yields the failure message, and a
\* run served from the cache ends with a report.
C14_CachedRecordsComplete ==
    /\ \A c \in DOMAIN WEATHER_CACHE :
          format_weather_message(WEATHER_CACHE[c].data).kind = "report"
    /\ (Called /\ last_run.call.fetcher_calls = 0) =>
          /\ ~last_run.raised
          /\ Len(last_run.sent) = 1
          /\ last_run.sent[1].text.kind = "report"

\* C15: every key of the cache is an entry of the allow-list, whatever texts
\* were sent, so the cache never holds more entries than the list has cities
\* (five).
C15_KeysAreListedCities ==
    /\ \A c \in DOMAIN WEATHER_CACHE : InList(c, AVAILABLE_CITIES)
    /\ Cardinality(DOMAIN WEATHER_CACHE) <= Len(AVAILABLE_CITIES)
    /\ Len(AVAILABLE_CITIES) = 5

\* A listed city typed with whitespace around it was fetched and is cached
\* under the name of the list, not under the text as typed.
C15_Witness ==
    /\ Called
    /\ Is200(last_run.call.response)
    /\ last_run.message.text # City
    /\ City \in DOMAIN WEATHER_CACHE
    /\ last_run.message.text \notin DOMAIN WEATHER_CACHE
    /\ Cardinality(DOMAIN WEATHER_CACHE) = 2

\* C16: a step of a request for a city leaves the entry of every other city
\* as it was and adds no other key, whether the request is a hit, a fetch
\* that succeeded or a fetch that failed; a step that ends the start command,
\* the help command, a rejected text or a hit, and a step in which no handler
\* ends, leave the whole cache as it was.
C16_OtherCitiesUntouched ==
    [][/\ \A d \in DOMAIN WEATHER_CACHE \cup DOMAIN WEATHER_CACHE' :
             (~last_run'.ended \/ d # strip(last_run'.message.text)) =>
                 /\ d \in DOMAIN WEATHER_CACHE
                 /\ d \in DOMAIN WEATHER_CACHE'
                 /\ WEATHER_CACHE'[d] = WEATHER_CACHE[d]
       /\ (~last_run'.ended \/ ~last_run'.call.called
              \/ last_run'.call.fetcher_calls = 0) =>
             WEATHER_CACHE' = WEATHER_CACHE]_vars

\* A fetch for one city succeeded while the cache held an entry of another
\* city, written earlier, which is still there.
C16_Witness ==
    /\ Called
    /\ Is200(last_run.call.response)
    /\ WEATHER_CACHE[City].timestamp = clock
    /\ \E d \in DOMAIN WEATHER_CACHE :
          d # City /\ WEATHER_CACHE[d].timestamp < clock

====
